---- MODULE Spec2Model ----
(***************************************************************************)
(* A model of gfunc2d/mksynth.py: the synthetic-population sampler         *)
(* generate_synth_stars and the observation simulator make_synth_obs.      *)
(*                                                                         *)
(* Real numbers are exact rationals <<n, d>> with d > 0.  A uniform draw   *)
(* np.random.rand() is k/UD for k in 0..UD-1 (the half-open [0,1)), a      *)
(* standard normal draw is an integer z in -1..1, so normal(mu, s) is      *)
(* mu + s*z.  Temperatures are 10**logT with integer logT.                 *)
(***************************************************************************)
EXTENDS Integers, Sequences, FiniteSets, TLC

\* ------------------------------------------------------------------ bounds
MaxNs == 2     \* largest target count ns
GD == 2        \* extra_giants ranges over 0/GD .. GD/GD
UD == 3        \* np.random.rand() ranges over 0/UD .. (UD-1)/UD
MaxNe == 1     \* cap on the rejected counter ne (the code has none)

\* ------------------------------------------------------- program constants
NLow == 5           \* [:5] in low_inds
TeffBase == 4500    \* Teffmin_dwarf = 4500-500*feh_test
TeffSlope == 500
TenBase == 10       \* 10**q['logT']

\* --------------------------------------------------------------- rationals
RECURSIVE GCD(_, _)
GCD(a, b) == IF b = 0 THEN a ELSE GCD(b, a % b)
Abs(x) == IF x < 0 THEN -x ELSE x
\* the rational n/d (d > 0) in lowest terms
R(n, d) == LET g == GCD(Abs(n), d) IN <<n \div g, d \div g>>
RInt(n) == <<n, 1>>
RLt(a, b) == a[1] * b[2] < b[1] * a[2]
RLe(a, b) == a[1] * b[2] <= b[1] * a[2]
RMul(a, b) == R(a[1] * b[1], a[2] * b[2])
RAdd(a, b) == R(a[1] * b[2] + b[1] * a[2], a[2] * b[2])
RSub(a, b) == R(a[1] * b[2] - b[1] * a[2], a[2] * b[2])
\* a / b for b > 0
RDiv(a, b) == R(a[1] * b[2], a[2] * b[1])

RECURSIVE IPow(_, _)
IPow(b, e) == IF e = 0 THEN 1 ELSE b * IPow(b, e - 1)

\* 0-based arrays: a Python list / numpy array of length n is a function on 0..n-1
Arr(s) == [i \in 0..(Len(s) - 1) |-> s[i + 1]]
ALen(a) == Cardinality(DOMAIN a)
Zeros(n) == [i \in 0..(n - 1) |-> 0]
RZeros(n) == [i \in 0..(n - 1) |-> RInt(0)]

\* ------------------------------------------------ the isochrone grid (external)
\* get_gridparams(gridfile)[0]: the parameters carried by every track node
params == <<"Mini", "logT", "logg">>

TrackA == [Mini |-> Arr(<<1, 2, 3, 4, 5, 6, 7, 8>>),
           logT |-> Arr(<<3, 3, 4, 4, 3, 2, 2, 3>>),
           logg |-> Arr(<<5, 5, 4, 4, 3, 2, 1, 0>>)]
TrackB == [Mini |-> Arr(<<2, 2, 3, 5>>),
           logT |-> Arr(<<3, 4, 4, 3>>),
           logg |-> Arr(<<5, 4, 3, 1>>)]
TrackC == [Mini |-> Arr(<<3, 3>>),
           logT |-> Arr(<<4, 3>>),
           logg |-> Arr(<<4, 2>>)]

GridAges == Arr(<<2, 5>>)
GridFehs == Arr(<<-3, 0, 3>>)

\* index of the first minimum of a 0-based integer array (np.argmin)
ArgMin(a) == CHOOSE i \in DOMAIN a :
               /\ \A j \in DOMAIN a : a[i] <= a[j]
               /\ \A j \in DOMAIN a : a[j] = a[i] => i <= j

\* the grid age closest to the rational age a
RealizedAge(a) ==
  GridAges[ArgMin([i \in DOMAIN GridAges |-> Abs(GridAges[i] * a[2] - a[1])])]
RealizedFeh(f) ==
  GridFehs[ArgMin([i \in DOMAIN GridFehs |-> Abs(GridFehs[i] - f)])]

\* get_isochrone(gridfile, 0.0, feh, age) -> q, afa
get_isochrone(feh, age) ==
  LET ga == RealizedAge(age)
      gf == RealizedFeh(feh)
  IN [q |-> IF ga = 2 THEN TrackA ELSE IF gf <= 0 THEN TrackB ELSE TrackC,
      afa |-> <<0, gf, ga>>]

\* ------------------------------------------------------ dwarf / giant split
TempDiffsAbs(q) ==
  [i \in 0..(ALen(q.logT) - 2) |->
     Abs(IPow(TenBase, q.logT[i + 1]) - IPow(TenBase, q.logT[i]))]
\* np.diff(10**q['logT'])
TempDiffs(q) ==
  [i \in 0..(ALen(q.logT) - 2) |->
     IPow(TenBase, q.logT[i + 1]) - IPow(TenBase, q.logT[i])]

\* np.argsort(d)[:5] as a set of indices: the NLow positions (all of them when
\* there are fewer) holding the smallest values; equal values may be ordered
\* either way by the sort, so every admissible choice is returned.
LowIndsChoices(d) ==
  LET n == IF ALen(d) < NLow THEN ALen(d) ELSE NLow
  IN {S \in SUBSET DOMAIN d :
        /\ Cardinality(S) = n
        /\ \A i \in S : \A j \in (DOMAIN d) \ S : d[i] <= d[j]}

\* the k-th smallest element (k from 0) of a finite set of integers
Kth(S, k) == CHOOSE x \in S : Cardinality({y \in S : y < x}) = k

\* int(np.median(low_inds)) for a non-empty index set
IntMedian(S) ==
  LET n == Cardinality(S)
  IN IF n % 2 = 1 THEN Kth(S, n \div 2)
     ELSE (Kth(S, n \div 2 - 1) + Kth(S, n \div 2)) \div 2

\* int(np.median(np.argsort(np.diff(10**q['logT']))[:5])), one value per
\* admissible ordering of equal differences
SplitChoices(q) == {IntMedian(S) : S \in LowIndsChoices(TempDiffs(q))}

\* lines 101-104 for each track of the grid (evaluated once)
GridTracks == {TrackA, TrackB, TrackC}
SplitTable == [t \in GridTracks |-> SplitChoices(t)]

\* ------------------------------------------------------------- the sampler
\* t_bursts: ndim is len(t_bursts.shape); rows are [t_low, t_high, probability]
BurstModels ==
  { [ndim |-> 1, rows |-> << <<3, 5, 0>> >>],
    [ndim |-> 2, rows |-> << <<1, 2, 1>>, <<4, 5, 0>> >>],
    [ndim |-> 2, rows |-> << <<1, 2, 0>>, <<4, 5, 0>> >>],
    [ndim |-> 0, rows |-> << >>],
    [ndim |-> 3, rows |-> << <<1, 2, 1>> >>] }

\* IMF_alpha as a rational; every value has an integer exponent -1/(alpha-1)
\* except alpha = 1, where the division fails
AlphaValues == { <<2, 1>>, <<3, 2>>, <<1, 1>>, <<1, 2>> }

\* feh_params = [feh_mean, feh_dispersion]
feh_params == <<0, 3>>

NsValues == 0..MaxNs
GiantFractions == { R(g, GD) : g \in 0..GD }
UValues == { R(k, UD) : k \in 0..(UD - 1) }
ZValues == {-1, 0, 1}

VARIABLES t_bursts, ns, IMF_alpha, extra_giants,   \* the arguments
          pc,             \* "setup", "loop", "done", "error"
          single_burst,   \* line 58
          prob,           \* line 71: the normalised weights, or why they are unusable
          iv, ne,         \* accepted / rejected counters
          data,           \* data[param][k], k in 0..ns-1
          rngDraws,       \* values consumed from np.random so far
          outfile,        \* the hdf5 output: "none" until written
          loc             \* the loop body's locals at the end of the last iteration

svars == <<t_bursts, ns, IMF_alpha, extra_giants, pc, single_burst, prob,
           iv, ne, data, rngDraws, outfile, loc>>

\* make_synth_obs
VARIABLES obs_params, plx_distribution, synth,     \* the arguments
          opc,            \* "start", "loaded", "truth", "observed", "done", "error"
          oerr,           \* the exception raised, or "none"
          true_data, app_mags_true, plx_rel_err, obs_data,
          obsDraws,       \* values consumed from np.random so far
          outtext         \* the text file: "none" until written

ovars == <<obs_params, plx_distribution, synth, opc, oerr, true_data,
           app_mags_true, plx_rel_err, obs_data, obsDraws, outtext>>

\* the split index on a track of its own
VARIABLES sq,          \* the queried track (its temperatures)
          split_ind    \* line 104, or Unset before it is assigned

pvars == <<sq, split_ind>>
Unset == 0 - 1

vars == <<svars, ovars, pvars>>

columns == {"Mini", "logT", "logg", "age", "phase"}

RECURSIVE SumW(_, _)
SumW(rows, n) == IF n = 0 THEN 0 ELSE rows[n][3] + SumW(rows, n - 1)

\* lines 69-72: prob = t_bursts[:, 2] / np.sum(t_bursts[:, 2])
Normalised(tb) ==
  LET s == SumW(tb.rows, Len(tb.rows))
  IN IF tb.ndim # 2 THEN [kind |-> "not1d"]
     ELSE IF s = 0 THEN [kind |-> "nan"]
     ELSE IF \E i \in 1..Len(tb.rows) : tb.rows[i][3] * s < 0 THEN [kind |-> "negative"]
     ELSE [kind |-> "ok", p |-> [i \in 1..Len(tb.rows) |-> R(tb.rows[i][3], s)]]

\* np.random.choice(range(n_bursts), p=prob): the indices it can return
BurstChoicesAny(p) == DOMAIN p.p
BurstChoices(p) == {i \in DOMAIN p.p : p.p[i][1] # 0}

\* line 91 / lines 94-95: t_low + (t_high - t_low) * np.random.rand()
DrawAge(row, u) == RAdd(RInt(row[1]), RMul(RInt(row[2] - row[1]), u))

\* line 96: np.random.normal(feh_mean, feh_disp)
DrawFeh(z) == feh_params[1] + feh_params[2] * z

\* line 88: while iv < ns
LoopCondLe(i, n) == i <= n
LoopCond(i, n) == i < n

\* line 108: the counter compared with the threshold is the accepted count iv
PhaseIndexAttempts(accepted, rejected) == accepted + rejected
PhaseIndex(accepted, rejected) == accepted

\* line 108: iv < ns*(1-extra_giants)
IsOrdinaryDrawLe(i, n, eg) == RLe(RInt(i), RMul(RInt(n), RSub(RInt(1), eg)))
IsOrdinaryDraw(i, n, eg) == RLt(RInt(i), RMul(RInt(n), RSub(RInt(1), eg)))

\* lines 110-112: the dwarf mass floor
DwarfFloor(q, split, feh_test) ==
  LET Teffmin_dwarf == TeffBase - TeffSlope * feh_test
      idx_dwarf == ArgMin([i \in 0..(split - 1) |->
                             Abs(IPow(TenBase, q.logT[i]) - Teffmin_dwarf)])
  IN q.Mini[idx_dwarf]

\* line 118: the exponent -1/(IMF_alpha-1), for IMF_alpha # 1
Exponent(alpha) ==
  IF alpha[1] > alpha[2] THEN -(alpha[2] \div (alpha[1] - alpha[2]))
  ELSE alpha[2] \div (alpha[2] - alpha[1])

\* line 118: u ** e for a rational u >= 0 and integer e (u > 0 when e < 0)
RPow(u, e) ==
  IF e >= 0 THEN R(IPow(u[1], e), IPow(u[2], e))
  ELSE R(IPow(u[2], -e), IPow(u[1], -e))

\* line 118: m = m_min * np.random.rand()**(-1/(IMF_alpha-1))
DrawMass(m_min, u, alpha) == RMul(RInt(m_min), RPow(u, Exponent(alpha)))

\* line 124: if m < q_mass[-1]
InValidRange(m, q_mass) == RLt(m, RInt(q_mass[ALen(q_mass) - 1]))

\* line 126: np.where(q_mass <= m)[0]    line 127: np.where(q_mass > m)[0]
WhereLe(q_mass, m) == {i \in DOMAIN q_mass : RLe(RInt(q_mass[i]), m)}
WhereGt(q_mass, m) == {i \in DOMAIN q_mass : RLt(m, RInt(q_mass[i]))}
SetMax(S) == CHOOSE x \in S : \A y \in S : y <= x
SetMin(S) == CHOOSE x \in S : \A y \in S : x <= y

\* line 129: h = (m - q_mass[im]) / (q_mass[ip] - q_mass[im])
Weight(m, q_mass, im, ip) ==
  RDiv(RSub(m, RInt(q_mass[im])), RInt(q_mass[ip] - q_mass[im]))

\* line 132: (1-h)*q[param][im] + h*q[param][ip]
Interpolate(h, a, b) ==
  RAdd(RMul(RSub(RInt(1), h), RInt(a)), RMul(h, RInt(b)))

\* lines 89-138: one pass through the body of `while iv < ns`, for the values the
\* random generator returns (burst row, u_age, z, u_m) and the split index the
\* sort yields.  status is "accept", "reject" or the exception raised; rng is
\* the number of random values consumed before the pass ended.
Iteration(i, n, eg, alpha, row, nchoice, u_age, z, u_m, split) ==
  LET age == DrawAge(row, u_age)
      feh_test == DrawFeh(z)
      iso == get_isochrone(feh_test, age)
      q == iso.q
      ordinary == IsOrdinaryDraw(i, n, eg)
      phase_i == IF ordinary THEN 0 ELSE 1
      base == [age |-> age, feh_test |-> feh_test, q |-> q,
               split_ind |-> split, phase_i |-> phase_i]
  IN IF ordinary /\ split = 0
     THEN \* np.argmin of an empty slice
          [status |-> "ValueError", rng |-> nchoice + 2] @@ base
     ELSE
     LET m_min == IF ordinary THEN DwarfFloor(q, split, feh_test)
                  ELSE q.Mini[split]
         withMin == [m_min |-> m_min] @@ base
     IN IF alpha[1] = alpha[2] \/ (u_m[1] = 0 /\ Exponent(alpha) < 0)
        THEN \* -1/(IMF_alpha-1), or 0.0 to a negative power
             [status |-> "ZeroDivisionError", rng |-> nchoice + 3] @@ withMin
        ELSE
        LET m == DrawMass(m_min, u_m, alpha)
            iso_age == iso.afa[3]
            q_mass == q.Mini
            withM == [m |-> m] @@ withMin
        IN IF ~InValidRange(m, q_mass)
           THEN [status |-> "reject", rng |-> nchoice + 3] @@ withM
           ELSE IF WhereLe(q_mass, m) = {}
           THEN \* np.where(q_mass <= m)[0][-1] on an empty array
                [status |-> "IndexError", rng |-> nchoice + 3] @@ withM
           ELSE
           LET im == SetMax(WhereLe(q_mass, m))
               ip == SetMin(WhereGt(q_mass, m))
               h == Weight(m, q_mass, im, ip)
           IN [status |-> "accept", rng |-> nchoice + 3,
               im |-> im, ip |-> ip, h |-> h,
               row |-> [Mini |-> Interpolate(h, q.Mini[im], q.Mini[ip]),
                        logT |-> Interpolate(h, q.logT[im], q.logT[ip]),
                        logg |-> Interpolate(h, q.logg[im], q.logg[ip]),
                        age |-> iso_age,
                        phase |-> phase_i]] @@ withM

\* lines 55-87: seed, settings, burst weights, zeroed arrays, counters
Setup ==
  /\ pc = "setup"
  /\ single_burst' = (t_bursts.ndim = 1)
  /\ IF t_bursts.ndim = 0
     THEN \* t_bursts[:, 2] on a 0-d array: IndexError
          /\ pc' = "error"
          /\ UNCHANGED <<prob, data>>
     ELSE /\ pc' = "loop"
          /\ prob' = IF t_bursts.ndim = 1 THEN prob ELSE Normalised(t_bursts)
          /\ data' = [c \in columns |-> IF c = "age" \/ c = "phase" THEN Zeros(ns)
                                        ELSE RZeros(ns)]
  /\ iv' = 0
  /\ ne' = 0
  /\ loc' = [status |-> "none", phase_i |-> 0]
  /\ UNCHANGED <<t_bursts, ns, IMF_alpha, extra_giants, rngDraws, outfile>>
  /\ UNCHANGED <<ovars, pvars>>

\* the next state after a pass of the loop body with outcome out
Pass(out) ==
  /\ out.status = "reject" => ne < MaxNe
  /\ pc' = IF out.status \in {"accept", "reject"} THEN "loop" ELSE "error"
  /\ iv' = IF out.status = "accept" THEN iv + 1 ELSE iv
  /\ ne' = IF out.status = "reject" THEN ne + 1 ELSE ne
  /\ data' = IF out.status = "accept"
             THEN [c \in columns |-> [data[c] EXCEPT ![iv] = out.row[c]]]
             ELSE data
  /\ rngDraws' = rngDraws + out.rng
  /\ loc' = out
  /\ UNCHANGED <<t_bursts, ns, IMF_alpha, extra_giants, single_burst, prob, outfile>>
  /\ UNCHANGED <<ovars, pvars>>

\* lines 88-138: one iteration of the sampling loop
Draw ==
  /\ pc = "loop"
  /\ LoopCond(iv, ns)
  /\ IF ~single_burst /\ prob.kind # "ok"
     THEN \* np.random.choice rejects p before drawing
          Pass([status |-> "ValueError", rng |-> 0, phase_i |-> loc.phase_i])
     ELSE \E i_burst \in (IF single_burst THEN {1} ELSE BurstChoices(prob)),
             u_age \in UValues, z \in ZValues :
            LET row == t_bursts.rows[i_burst]
                nchoice == IF single_burst THEN 0 ELSE 1
                q == get_isochrone(DrawFeh(z), DrawAge(row, u_age)).q
            IN \E split \in SplitTable[q], u_m \in UValues :
                 \E out \in {Iteration(PhaseIndex(iv, ne), ns, extra_giants, IMF_alpha,
                                       row, nchoice, u_age, z, u_m, split)} :
                   Pass(out)

\* lines 140-157: the loop has ended; report the counts and write the output file
Finish ==
  /\ pc = "loop"
  /\ ~LoopCond(iv, ns)
  /\ pc' = "done"
  /\ outfile' = [config |-> [t_bursts |-> t_bursts, IMF_alpha |-> IMF_alpha, ns |-> ns],
                 data |-> data]
  /\ UNCHANGED <<t_bursts, ns, IMF_alpha, extra_giants, single_burst, prob,
                 iv, ne, data, rngDraws, loc>>
  /\ UNCHANGED <<ovars, pvars>>

\* ------------------------------------------------- properties of the sampler
RFloor(a) == a[1] \div a[2]
RCeil(a) == -((-a[1]) \div a[2])
Started == pc # "setup"
Giants == {k \in 0..(ns - 1) : data["phase"][k] = 1}
Between(x, a, b) ==
  \/ RLe(RInt(a), x) /\ RLe(x, RInt(b))
  \/ RLe(RInt(b), x) /\ RLe(x, RInt(a))
TrackMax(q) == q.Mini[ALen(q.Mini) - 1]

\* C1: the accepted count never exceeds ns, the loop ends only with exactly ns
\* accepted stars, slots at and after iv are still zero, and an accepting pass
\* writes the new star to slot iv and leaves every earlier slot as it was.
C1_AcceptedCount ==
  /\ [](Started /\ pc # "error" =>
          /\ iv <= ns
          /\ (pc = "done" => iv = ns)
          /\ \A k \in iv..(ns - 1) : data["phase"][k] = 0 /\ data["Mini"][k] = RInt(0))
  /\ [][pc = "loop" =>
          /\ iv' \in {iv, iv + 1}
          /\ \A c \in columns : \A k \in 0..(iv - 1) : data'[c][k] = data[c][k]
          /\ (iv' = iv + 1 =>
                \A c \in columns : data'[c][iv] = loc'.row[c])]_vars

\* a run that ended with MaxNs stars after at least one rejection
C1_Witness == pc = "done" /\ ns = MaxNs /\ iv = ns /\ ne > 0

\* C2: the phase flag of the star at acceptance index k is 0 exactly when
\* k < ns*(1-extra_giants), whatever the number of rejected draws; flags are
\* non-decreasing in acceptance order; and for ns = 50, extra_giants = 0.2 the
\* threshold puts indices 0..39 in phase 0 and 40..49 in phase 1.
C2_PhaseByAcceptanceOrder ==
  /\ Started =>
       /\ \A k \in 0..(iv - 1) :
            data["phase"][k] =
              IF k * extra_giants[2] < ns * (extra_giants[2] - extra_giants[1])
              THEN 0 ELSE 1
       /\ \A j, k \in 0..(iv - 1) : j < k => data["phase"][j] <= data["phase"][k]
  /\ \A k \in 0..49 : IsOrdinaryDraw(k, 50, R(2, 10)) <=> k < 40

\* a forced giant stored after an ordinary star, with a rejection in between
C2_Witness ==
  /\ Started /\ iv = 2 /\ ne > 0
  /\ data["phase"][0] = 0 /\ data["phase"][1] = 1

\* C3 as stated: the final number of phase-1 stars is ceil(ns * extra_giants)
C3_CeilGiants ==
  pc = "done" => Cardinality(Giants) = RCeil(RMul(RInt(ns), extra_giants))

\* C3 (amended): the final number of phase-1 stars is the number of indices
\* k < ns with not k < ns*(1-extra_giants), that is ns - ceil(ns*(1-extra_giants)),
\* which is floor(ns * extra_giants).
C3_FloorGiants ==
  pc = "done" =>
    /\ Cardinality(Giants) = RFloor(RMul(RInt(ns), extra_giants))
    /\ Cardinality(Giants) =
         ns - RCeil(RMul(RInt(ns), RSub(RInt(1), extra_giants)))

\* a finished run in which ns * extra_giants is not an integer
C3_Witness ==
  /\ pc = "done" /\ ns > 0
  /\ (ns * extra_giants[1]) % extra_giants[2] # 0

\* C4: a draw is accepted iff m < the track's last mass, an accepted star has
\* m_min <= m < track maximum, and a draw whose floor is at or above the track
\* maximum is rejected, changing only the rejected counter.
C4_AcceptIffBelowMax ==
  /\ loc.status = "accept" =>
       /\ RLe(RInt(loc.m_min), loc.m)
       /\ RLt(loc.m, RInt(TrackMax(loc.q)))
  /\ loc.status = "reject" => ~RLt(loc.m, RInt(TrackMax(loc.q)))
  /\ (/\ loc.status \notin {"none", "ValueError"}
      /\ loc.m_min >= TrackMax(loc.q)
      /\ IMF_alpha[1] # IMF_alpha[2]
      /\ loc.status # "ZeroDivisionError") => loc.status = "reject"

\* C6: under a malformed burst shape, non-normalisable weights or an IMF
\* exponent <= 1 no random value is drawn and no star is accepted or rejected
\* (the error is raised before the first draw).
BadConfig ==
  \/ t_bursts.ndim \notin {1, 2}
  \/ t_bursts.ndim = 2 /\ SumW(t_bursts.rows, Len(t_bursts.rows)) = 0
  \/ IMF_alpha[1] <= IMF_alpha[2]
C6_ConfigErrorsBeforeSampling ==
  BadConfig => rngDraws = 0 /\ iv = 0 /\ ne = 0

\* C8 as stated: every recorded age lies in [t_low, t_high] of the single
\* burst, or of some burst with non-zero weight
ActiveRows ==
  IF t_bursts.ndim = 1 THEN {t_bursts.rows[1]}
  ELSE {t_bursts.rows[i] : i \in {j \in 1..Len(t_bursts.rows) : t_bursts.rows[j][3] # 0}}
C8_AgeInBurst ==
  Started /\ t_bursts.ndim \in {1, 2} =>
    \A k \in 0..(iv - 1) :
      \E row \in ActiveRows : row[1] <= data["age"][k] /\ data["age"][k] <= row[2]

\* C8 (amended): every recorded age is the age the grid query realises for
\* some requested age inside [t_low, t_high] of the single burst, or of some
\* burst with non-zero weight.
C8_AgeRealizedFromBurst ==
  Started /\ t_bursts.ndim \in {1, 2} =>
    \A k \in 0..(iv - 1) :
      \E row \in ActiveRows :
        \E n \in (row[1] * UD)..(row[2] * UD) :
          data["age"][k] = RealizedAge(R(n, UD))

\* a multi-burst run with a zero-weight burst that stored a star
C8_Witness ==
  /\ Started /\ iv > 0 /\ t_bursts.ndim = 2
  /\ \E i \in 1..Len(t_bursts.rows) : t_bursts.rows[i][3] = 0

\* C10: a draw that passes the range test on a track with non-decreasing masses
\* has bracketing indices ip = im + 1 with mass[im] <= m < mass[ip], a weight
\* 0 <= h < 1, and stored values between the two bracketing node values.
C10_Bracketing ==
  loc.status \in {"accept", "IndexError"} =>
    /\ loc.status = "accept"
    /\ loc.ip = loc.im + 1
    /\ RLe(RInt(loc.q.Mini[loc.im]), loc.m)
    /\ RLt(loc.m, RInt(loc.q.Mini[loc.ip]))
    /\ RLe(RInt(0), loc.h) /\ RLt(loc.h, RInt(1))
    /\ Between(loc.row.Mini, loc.q.Mini[loc.im], loc.q.Mini[loc.ip])
    /\ Between(loc.row.logT, loc.q.logT[loc.im], loc.q.logT[loc.ip])
    /\ Between(loc.row.logg, loc.q.logg[loc.im], loc.q.logg[loc.ip])

\* C4 and C10 restricted to IMF_alpha > 1
ValidAlpha == IMF_alpha[1] > IMF_alpha[2]
C4_ForValidAlpha == ValidAlpha => C4_AcceptIffBelowMax
C10_ForValidAlpha == ValidAlpha => C10_Bracketing

\* ------------------------------------------------ the observation simulator
ObsNs == 1          \* largest number of stars in the synthetic file

MuFactor == 5       \* mu_true = 5 * np.log10(100/plx_true)
PlxRef == 100
Decimals == 4       \* float_format='%10.4f'

\* lines 6-8
known_filters == {"J", "H", "Ks", "u", "v", "g", "r", "i", "z",
                  "G", "G_BPbr", "G_BPft", "G_RP"}

\* the synthetic file written by generate_synth_stars from a grid whose tracks
\* carry Mini, logT, logg and the absolute magnitude G
SynthColumns == {"Mini", "logT", "logg", "G", "age", "phase"}
SynthFile(n) ==
  [ns |-> n,
   data |-> [c \in SynthColumns |->
               [k \in 0..(n - 1) |->
                  CASE c = "Mini" -> 1 + k
                    [] c = "logT" -> 3 + k
                    [] c = "logg" -> 4 - k
                    [] c = "G" -> 5 + k
                    [] c = "age" -> 2
                    [] OTHER -> 0]]]

\* obs_params: up to three of these names, each with an uncertainty
ObsNames == {"plx", "logT", "logg", "G", "J", "Teff"}
SigmaValues == {0, 1}
ObsRequests ==
  UNION {[S -> SigmaValues] :
           S \in {T \in SUBSET ObsNames : T # {} /\ Cardinality(T) <= 3}}

\* plx_distribution
PlxPolicies == {[kind |-> "SN"], [kind |-> "Skymapper"], [kind |-> "const", value |-> 10]}
\* values of np.exp(np.random.normal(...)): powers of ten, so that log10 is exact
PlxDraws == {1, 10}
\* np.arange(0.02, 0.21, 0.01) in percent: its end points and its midpoint
RelErrPct == {2, 11, 20}

Keys == DOMAIN obs_params
Stars == 0..(synth.ns - 1)

\* line 188
obs_mags == known_filters \cap Keys

\* line 189: len(obs_mags) > 0 and 'plx' not in obs_params
NoCheck(op) == FALSE
MagsWithoutPlx(op) == (known_filters \cap DOMAIN op) # {} /\ "plx" \notin DOMAIN op

\* lines 197-206: the parameters the synthetic file does not hold
Missing(op) == {p \in (DOMAIN op) \ {"plx"} : p \notin SynthColumns}

\* lines 201-204
LoadColumn(p) ==
  [k \in Stars |-> IF p = "logT" THEN RInt(IPow(TenBase, synth.data[p][k]))
                   ELSE RInt(synth.data[p][k])]

RECURSIVE Log10(_)
Log10(x) == IF x <= 1 THEN 0 ELSE 1 + Log10(x \div TenBase)

\* line 224: 5 * np.log10(100/plx_true)
DistanceModulus(plx) == MuFactor * Log10(PlxRef \div plx)

\* np.random.normal(0, scale) for the standard normal value z
NoiseUnscaled(scale, z) == RInt(z)
Noise(scale, z) == RMul(scale, RInt(z))

\* float_format='%10.4f': x rounded to four decimals
Format(x) ==
  LET ten == IPow(TenBase, Decimals)
  IN R((2 * x[1] * ten + x[2]) \div (2 * x[2]), ten)

\* lines 187-207: the magnitude check, then the true values from the file
LoadTrue ==
  /\ opc = "start"
  /\ IF MagsWithoutPlx(obs_params)
     THEN /\ opc' = "error" /\ oerr' = "ValueError"
          /\ UNCHANGED true_data
     ELSE IF Missing(obs_params) # {}
     THEN /\ opc' = "error" /\ oerr' = "KeyError"
          /\ UNCHANGED true_data
     ELSE /\ opc' = "loaded" /\ oerr' = "none"
          /\ true_data' = [p \in (Keys \ {"plx"}) \cap SynthColumns |-> LoadColumn(p)]
  /\ UNCHANGED <<obs_params, plx_distribution, synth, app_mags_true, plx_rel_err,
                 obs_data, obsDraws, outtext>>
  /\ UNCHANGED <<svars, pvars>>

\* lines 209-227: the true parallaxes and apparent magnitudes
DrawParallax ==
  /\ opc = "loaded"
  /\ opc' = "truth"
  /\ IF "plx" \in Keys
     THEN \E plx_true \in [Stars -> IF plx_distribution.kind = "const"
                                    THEN {plx_distribution.value} ELSE PlxDraws] :
            /\ true_data' = true_data @@ ("plx" :> [k \in Stars |-> RInt(plx_true[k])])
            /\ app_mags_true' =
                 [mag \in obs_mags \cap DOMAIN true_data |->
                    [k \in Stars |->
                       RAdd(true_data[mag][k], RInt(DistanceModulus(plx_true[k])))]]
            /\ obsDraws' = IF plx_distribution.kind = "const" THEN obsDraws
                           ELSE obsDraws + synth.ns
     ELSE UNCHANGED <<true_data, app_mags_true, obsDraws>>
  /\ UNCHANGED <<obs_params, plx_distribution, synth, oerr, plx_rel_err, obs_data, outtext>>
  /\ UNCHANGED <<svars, pvars>>

\* lines 229-246: observed values with Gaussian uncertainties
Observe ==
  /\ opc = "truth"
  /\ IF obs_mags # {} /\ "plx" \notin Keys
     THEN \* app_mags_true was never assigned
          /\ opc' = "error" /\ oerr' = "NameError"
          /\ UNCHANGED <<plx_rel_err, obs_data, obsDraws>>
     ELSE
     LET sky == "plx" \in Keys /\ plx_distribution.kind = "Skymapper"
     IN \E z \in [Keys \X Stars -> ZValues],
           rel \in [Stars -> IF sky THEN RelErrPct ELSE {0}] :
          /\ opc' = "observed" /\ oerr' = "none"
          /\ plx_rel_err' = IF sky THEN [k \in Stars |-> R(rel[k], 100)] ELSE plx_rel_err
          /\ obs_data' =
               [p \in Keys |->
                  [k \in Stars |->
                     IF p \in obs_mags
                     THEN RAdd(app_mags_true[p][k], Noise(RInt(obs_params[p]), z[p, k]))
                     ELSE IF p = "plx" /\ sky
                     THEN RAdd(true_data[p][k],
                               Noise(RMul(true_data[p][k], R(rel[k], 100)), z[p, k]))
                     ELSE RAdd(true_data[p][k], Noise(RInt(obs_params[p]), z[p, k]))]]
          /\ obsDraws' = obsDraws + synth.ns * Cardinality(Keys)
                                  + (IF sky THEN synth.ns ELSE 0)
  /\ UNCHANGED <<obs_params, plx_distribution, synth, true_data, app_mags_true, outtext>>
  /\ UNCHANGED <<svars, pvars>>

\* lines 248-258: one value column and one _unc column per parameter, as text
WriteOutput ==
  /\ opc = "observed"
  /\ opc' = "done"
  /\ outtext' =
       [p \in Keys |->
          [k \in Stars |->
             [val |-> Format(obs_data[p][k]),
              unc |-> IF p = "plx" /\ plx_distribution.kind = "Skymapper"
                      THEN Format(RMul(true_data[p][k], plx_rel_err[k]))
                      ELSE Format(RInt(obs_params[p]))]]]
  /\ UNCHANGED <<obs_params, plx_distribution, synth, oerr, true_data, app_mags_true,
                 plx_rel_err, obs_data, obsDraws>>
  /\ UNCHANGED <<svars, pvars>>

\* ------------------------------------- properties of the observation simulator
AllSigmasZero == \A p \in Keys : obs_params[p] = 0
Observed == opc \in {"observed", "done"}
BadRequest == MagsWithoutPlx(obs_params) \/ Missing(obs_params) # {}

\* the true value of parameter p for star k: the file's value (as a temperature
\* for logT), the drawn parallax, or absolute magnitude plus distance modulus
TrueValue(p, k) ==
  IF p = "plx" THEN true_data["plx"][k]
  ELSE IF p \in known_filters
  THEN RInt(synth.data[p][k] + MuFactor * Log10(PlxRef \div true_data["plx"][k][1]))
  ELSE IF p = "logT" THEN RInt(IPow(10, synth.data[p][k]))
  ELSE RInt(synth.data[p][k])

\* C5: a request with a known band but no plx, or with a parameter (other than
\* plx) that the synthetic file lacks, ends in an error with no random value
\* drawn and nothing written.
C5_SchemaErrorsBeforeNoise ==
  /\ BadRequest => opc \in {"start", "error"}
  /\ opc = "error" => BadRequest /\ obsDraws = 0 /\ outtext = "none"

\* the KeyError of a missing parameter, past the magnitude check
C5_Witness ==
  /\ opc = "error" /\ oerr = "KeyError"
  /\ "plx" \in Keys /\ "J" \in Keys

\* C7 as stated: with every uncertainty 0, under every parallax policy, every
\* observed value equals the true value
C7_ZeroSigmaRoundTrip ==
  Observed /\ AllSigmasZero =>
    \A p \in Keys : \A k \in Stars : obs_data[p][k] = TrueValue(p, k)

\* C7 (amended): with every uncertainty 0, every observed value equals the true
\* value, except the parallax under the 'Skymapper' policy, which is the true
\* parallax plus noise of scale true parallax * drawn relative error.
C7_ZeroSigmaExceptSkymapper ==
  Observed /\ AllSigmasZero =>
    \A p \in Keys : \A k \in Stars :
      IF p = "plx" /\ plx_distribution.kind = "Skymapper"
      THEN \E z \in ZValues :
             obs_data[p][k] =
               RAdd(TrueValue(p, k), RMul(RMul(TrueValue(p, k), plx_rel_err[k]), RInt(z)))
      ELSE obs_data[p][k] = TrueValue(p, k)

\* a zero-uncertainty observation of parallax, a band and a grid parameter
C7_Witness ==
  /\ Observed /\ AllSigmasZero
  /\ {"plx", "G", "logT"} \subseteq Keys

\* ------------------------------------------------- the split index on its own
MaxTrackLen == 7    \* longest track
LogTValues == {2, 3, 4}

RECURSIVE SeqsUpTo(_, _)
SeqsUpTo(V, n) ==
  IF n = 0 THEN {<< >>}
  ELSE LET shorter == SeqsUpTo(V, n - 1)
       IN shorter \cup {Append(t, v) : t \in {u \in shorter : Len(u) = n - 1}, v \in V}

\* lines 101-104
ComputeSplit ==
  /\ split_ind = Unset
  /\ \E s \in SplitChoices(sq) : split_ind' = s
  /\ sq' = sq
  /\ UNCHANGED <<svars, ovars>>

Temp(i) == IPow(10, sq.logT[i])
DiffIdx == 0..(ALen(sq.logT) - 2)
\* S holds the n positions of smallest value of d
Smallest(S, d, n) ==
  /\ S \subseteq DiffIdx
  /\ Cardinality(S) = n
  /\ \A i \in S : \A j \in DiffIdx \ S : d[i] <= d[j]
\* x is the median of the index set S, rounded towards zero
MedianOf(S, x) ==
  \E lo, hi \in S :
    /\ Cardinality({y \in S : y < lo}) = (Cardinality(S) - 1) \div 2
    /\ Cardinality({y \in S : y > hi}) = (Cardinality(S) - 1) \div 2
    /\ lo <= hi
    /\ 2 * x <= lo + hi /\ lo + hi <= 2 * x + 1
HowMany == IF ALen(sq.logT) - 1 < 5 THEN ALen(sq.logT) - 1 ELSE 5

\* C9 as stated: the split index is the median of the indices of the 5
\* smallest absolute successive temperature differences
C9_MedianOfSmallestAbs ==
  split_ind # Unset =>
    \E S \in SUBSET DiffIdx :
      /\ Smallest(S, [i \in DiffIdx |-> Abs(Temp(i + 1) - Temp(i))], HowMany)
      /\ MedianOf(S, split_ind)

\* C9 (amended): the split index is the median (rounded towards zero) of the
\* indices of the 5 smallest signed differences T[i+1] - T[i], all of them when
\* the track has fewer than 6 nodes.
C9_MedianOfSmallestSigned ==
  split_ind # Unset =>
    \E S \in SUBSET DiffIdx :
      /\ Smallest(S, [i \in DiffIdx |-> Temp(i + 1) - Temp(i)], HowMany)
      /\ MedianOf(S, split_ind)

\* a split computed on a track whose temperature both rises and falls and which
\* has more than 5 differences
C9_Witness ==
  /\ split_ind # Unset
  /\ ALen(sq.logT) > 6
  /\ \E i, j \in DiffIdx : Temp(i + 1) > Temp(i) /\ Temp(j + 1) < Temp(j)

\* ---------------------------------------------------------- specifications
\* generate_synth_stars
Next == Setup \/ Draw \/ Finish
\* the arguments of one call of generate_synth_stars; make_synth_obs is not running
Init ==
  /\ t_bursts \in BurstModels
  /\ ns \in NsValues
  /\ IMF_alpha \in AlphaValues
  /\ extra_giants \in GiantFractions
  /\ pc = "setup"
  /\ single_burst = FALSE
  /\ prob = [kind |-> "unset"]
  /\ iv = 0
  /\ ne = 0
  /\ data = << >>
  /\ rngDraws = 0
  /\ outfile = "none"
  /\ loc = [status |-> "none", phase_i |-> 0]
  /\ obs_params = << >> /\ plx_distribution = [kind |-> "SN"] /\ synth = SynthFile(0)
  /\ opc = "idle" /\ oerr = "none" /\ true_data = << >> /\ app_mags_true = << >>
  /\ plx_rel_err = << >> /\ obs_data = << >> /\ obsDraws = 0 /\ outtext = "none"
  /\ sq = [logT |-> << >>] /\ split_ind = Unset
Spec == Init /\ [][Next]_vars

\* make_synth_obs
NextObs == LoadTrue \/ DrawParallax \/ Observe \/ WriteOutput
\* the arguments of one call of make_synth_obs
InitObs ==
  /\ obs_params \in ObsRequests
  /\ plx_distribution \in PlxPolicies
  /\ synth \in {SynthFile(n) : n \in 1..ObsNs}
  /\ opc = "start"
  /\ oerr = "none"
  /\ true_data = << >>
  /\ app_mags_true = << >>
  /\ plx_rel_err = << >>
  /\ obs_data = << >>
  /\ obsDraws = 0
  /\ outtext = "none"
  /\ t_bursts = [ndim |-> 1, rows |-> << <<3, 5, 0>> >>]
  /\ ns = 0 /\ IMF_alpha = <<2, 1>> /\ extra_giants = <<0, 1>>
  /\ pc = "idle" /\ single_burst = FALSE /\ prob = [kind |-> "unset"]
  /\ iv = 0 /\ ne = 0 /\ data = << >> /\ rngDraws = 0 /\ outfile = "none"
  /\ loc = [status |-> "none", phase_i |-> 0]
  /\ sq = [logT |-> << >>] /\ split_ind = Unset
SpecObs == InitObs /\ [][NextObs]_vars

\* the split index over every track up to MaxTrackLen nodes
NextSplit == ComputeSplit
\* one queried track
InitSplit ==
  /\ sq \in {[logT |-> Arr(t)] : t \in {u \in SeqsUpTo(LogTValues, MaxTrackLen) : Len(u) >= 2}}
  /\ split_ind = Unset
  /\ t_bursts = [ndim |-> 1, rows |-> << <<3, 5, 0>> >>]
  /\ ns = 0 /\ IMF_alpha = <<2, 1>> /\ extra_giants = <<0, 1>>
  /\ pc = "idle" /\ single_burst = FALSE /\ prob = [kind |-> "unset"]
  /\ iv = 0 /\ ne = 0 /\ data = << >> /\ rngDraws = 0 /\ outfile = "none"
  /\ loc = [status |-> "none", phase_i |-> 0]
  /\ obs_params = << >> /\ plx_distribution = [kind |-> "SN"] /\ synth = SynthFile(0)
  /\ opc = "idle" /\ oerr = "none" /\ true_data = << >> /\ app_mags_true = << >>
  /\ plx_rel_err = << >> /\ obs_data = << >> /\ obsDraws = 0 /\ outtext = "none"
SpecSplit == InitSplit /\ [][NextSplit]_vars
====
